---------------------------- MODULE Spec2Model ----------------------------
(***************************************************************************)
(* Model of dev_notes/02_Implementation/refined_reference.py: the          *)
(* Gemini <-> OpenAI protocol converters and the proxy service.            *)
(*                                                                         *)
(* Representation of Python values:                                        *)
(*   - an optional value is a sequence of length <= 1: None is <<>>,       *)
(*     a present value v is <<v>>;                                         *)
(*   - names, identifiers and streamed text, which the code only tests     *)
(*     for truthiness, copies or formats, are TLA+ strings ("" is falsy;   *)
(*     the code never tells None from "" for them);                        *)
(*   - text the code parses, strips or concatenates is a sequence of       *)
(*     one-character strings;                                              *)
(*   - a dict that is iterated (accumulated_tool_calls) is a sequence of   *)
(*     entries in insertion order, as Python dicts are.                    *)
(***************************************************************************)
EXTENDS Integers, Sequences, FiniteSets, TLC

VARIABLES
    pc,                      \* position of the handler being run
    accumulated_tool_calls,  \* stream_generate_content: slot key -> entry
    all_chunks,              \* stream_generate_content: fragments consumed
    gemini_chunk,            \* stream_generate_content: last conversion result
    yielded,                 \* stream_generate_content: frames yielded so far
    completed_keys,          \* history: slot key of every functionCall emitted
    raised,                  \* the exception caught by the handler, if any
    contents,                \* convert_contents_to_messages: its argument
    messages,                \* convert_contents_to_messages: its result
    request_data,            \* generate_content: the request
    completion_params,       \* generate_content: the backend request built
    response,                \* generate_content: the backend's response
    gemini_response,         \* generate_content: the value returned
    http_exception,          \* generate_content: the HTTPException raised
    create_calls,            \* calls of client.chat.completions.create so far
    generation_config,       \* convert_config_to_openai_params: its argument
    openai_params,           \* convert_config_to_openai_params: its result
    message_content,         \* clean_markdown_json: its argument
    cleaned_content,         \* clean_markdown_json: its result
    tasks                    \* two concurrent stream_generate_content tasks

streamVars == <<accumulated_tool_calls, all_chunks, gemini_chunk, yielded,
                completed_keys>>
convVars == <<contents, messages>>
genVars == <<request_data, completion_params, response, gemini_response,
             http_exception>>
cfgVars == <<generation_config, openai_params>>
mdVars == <<message_content, cleaned_content>>
vars == <<pc, raised, create_calls, streamVars, convVars, genVars, cfgVars, mdVars,
          tasks>>

None == <<>>
Some(v) == <<v>>

\* The variables of the handlers and functions a specification does not run.
StreamIdle ==
    /\ accumulated_tool_calls = <<>>
    /\ all_chunks = <<>>
    /\ gemini_chunk = None
    /\ yielded = <<>>
    /\ completed_keys = <<>>
ConvIdle == contents = <<>> /\ messages = <<>>
GenIdle ==
    /\ request_data = None
    /\ completion_params = None
    /\ response = None
    /\ gemini_response = None
    /\ http_exception = None
CfgIdle == generation_config = None /\ openai_params = None
MdIdle == message_content = <<>> /\ cleaned_content = None
TasksIdle == tasks = <<>>

(***************************************************************************)
(* Bounds of the model.                                                    *)
(***************************************************************************)
MaxFragments == 3
MaxTurns == 2
MaxParts == 1
MaxText == 6

(***************************************************************************)
(* json.loads on the texts of the model.  The alphabet is                  *)
(*   "{"  "}"   the braces of an object                                    *)
(*   "k"        the member key and colon  "x":                             *)
(*   "1"        a digit                                                    *)
(*   " "  "\n"  whitespace                                                *)
(* and the grammar is JSON's restricted to it: a value is a number (one    *)
(* or more digits) or an object with zero or one member; whitespace is     *)
(* allowed around every token; anything else is a JSONDecodeError.         *)
(***************************************************************************)
IsWs(c) == c \in {" ", "\n"}
IsDigit(c) == c = "1"

RECURSIVE SkipWs(_, _)
SkipWs(s, i) == IF i <= Len(s) /\ IsWs(s[i]) THEN SkipWs(s, i + 1) ELSE i

JsonFail == [ok |-> FALSE, value |-> [number |-> 0], next |-> 0]

RECURSIVE ScanNumber(_, _, _)
ScanNumber(s, i, n) ==
    IF i <= Len(s) /\ IsDigit(s[i])
    THEN ScanNumber(s, i + 1, 10 * n + 1)
    ELSE [ok |-> TRUE, value |-> [number |-> n], next |-> i]

RECURSIVE ScanValue(_, _)
ScanValue(s, i) ==
    IF i > Len(s) THEN JsonFail
    ELSE IF IsDigit(s[i]) THEN ScanNumber(s, i, 0)
    ELSE IF s[i] = "{" THEN
        LET j == SkipWs(s, i + 1) IN
        IF j > Len(s) THEN JsonFail
        ELSE IF s[j] = "}"
        THEN [ok |-> TRUE, value |-> [object |-> <<>>], next |-> j + 1]
        ELSE IF s[j] = "k" THEN
            LET v == ScanValue(s, SkipWs(s, j + 1)) IN
            IF ~v.ok THEN JsonFail
            ELSE LET e == SkipWs(s, v.next) IN
                 IF e <= Len(s) /\ s[e] = "}"
                 THEN [ok |-> TRUE,
                       value |-> [object |-> <<[key |-> "x", value |-> v.value]>>],
                       next |-> e + 1]
                 ELSE JsonFail
        ELSE JsonFail
    ELSE JsonFail

\* json.loads(s): ok = FALSE stands for json.JSONDecodeError.
JsonLoads(s) ==
    LET v == ScanValue(s, SkipWs(s, 1)) IN
    IF v.ok /\ SkipWs(s, v.next) = Len(s) + 1
    THEN [ok |-> TRUE, value |-> v.value]
    ELSE [ok |-> FALSE, value |-> JsonFail.value]

\* json.dumps(value), with its default separators ", " and ": ".
RECURSIVE Digits(_)
Digits(n) == IF n < 10 THEN <<"1">> ELSE Digits(n \div 10) \o <<"1">>

RECURSIVE JsonDumps(_)
JsonDumps(value) ==
    IF "number" \in DOMAIN value THEN Digits(value.number)
    ELSE IF value.object = <<>> THEN <<"{", "}">>
    ELSE <<"{", "k", " ">> \o JsonDumps(value.object[1].value) \o <<"}">>

EmptyObject == [object |-> <<>>]

\* str.strip()
RECURSIVE StripLeft(_)
StripLeft(s) == IF s # <<>> /\ IsWs(Head(s)) THEN StripLeft(Tail(s)) ELSE s

RECURSIVE StripRight(_)
StripRight(s) ==
    IF s # <<>> /\ IsWs(s[Len(s)]) THEN StripRight(SubSeq(s, 1, Len(s) - 1)) ELSE s

Strip(s) == StripRight(StripLeft(s))

(***************************************************************************)
(* GeminiToOpenAIConverter.convert_contents_to_messages                    *)
(*                                                                         *)
(* A part is [text |-> chars], [functionCall |-> [name, args]],            *)
(* [functionResponse |-> [name, response]] (name, args and response        *)
(* optional) or, for a bare string, [str |-> chars].                       *)
(***************************************************************************)
IsDict(part) == "str" \notin DOMAIN part

\* dict.get(key, default) on an optional field.
GetOr(field, default) == IF field # None THEN field[1] ELSE default

\* combined_text of a turn: the text parts and the bare strings, in order.
RECURSIVE CombinedText(_)
CombinedText(parts) ==
    IF parts = <<>> THEN <<>>
    ELSE LET part == Head(parts) IN
         (IF IsDict(part)
          THEN IF "text" \in DOMAIN part THEN part.text ELSE <<>>
          ELSE part.str)
         \o CombinedText(Tail(parts))

\* tool_messages of a user turn: one per functionResponse part, in order.
RECURSIVE ToolMessages(_)
ToolMessages(parts) ==
    IF parts = <<>> THEN <<>>
    ELSE LET part == Head(parts) IN
         (IF IsDict(part) /\ "text" \notin DOMAIN part
             /\ "functionResponse" \in DOMAIN part
          THEN LET func_response == part.functionResponse IN
               <<[role |-> "tool",
                  tool_call_id |-> GetOr(func_response.name, "unknown") \o ":0",
                  content |-> JsonDumps(GetOr(func_response.response, EmptyObject))]>>
          ELSE <<>>)
         \o ToolMessages(Tail(parts))

\* Variant: the tool messages of a turn come before its user message.
UserMessagesToolsFirst(parts) ==
    ToolMessages(parts)
    \o (IF Strip(CombinedText(parts)) # <<>>
        THEN <<[role |-> "user", content |-> Strip(CombinedText(parts))]>>
        ELSE <<>>)

UserMessages(parts) ==
    (IF Strip(CombinedText(parts)) # <<>>
     THEN <<[role |-> "user", content |-> Strip(CombinedText(parts))]>>
     ELSE <<>>)
    \o ToolMessages(parts)

\* Variant: the search for a response covers every turn of the request.
HasResponseAnywhere(conts, i, part) ==
    \E j \in 1..Len(conts) :
        /\ conts[j].role = Some("user")
        /\ \E n \in 1..Len(conts[j].parts) :
              LET next_part == conts[j].parts[n] IN
              /\ IsDict(next_part)
              /\ "functionResponse" \in DOMAIN next_part
              /\ part.functionCall.name = next_part.functionResponse.name

\* has_response: a later turn of role user holds a functionResponse part
\* whose name equals the call's name (both read with .get("name")).
HasResponse(conts, i, part) ==
    \E j \in (i + 1)..Len(conts) :
        /\ conts[j].role = Some("user")
        /\ \E n \in 1..Len(conts[j].parts) :
              LET next_part == conts[j].parts[n] IN
              /\ IsDict(next_part)
              /\ "functionResponse" \in DOMAIN next_part
              /\ part.functionCall.name = next_part.functionResponse.name

\* Variant: a call without a response is skipped in every turn.
RECURSIVE ToolCallsSkipUnanswered(_, _, _)
ToolCallsSkipUnanswered(conts, i, parts) ==
    IF parts = <<>> THEN <<>>
    ELSE LET part == Head(parts) IN
         (IF IsDict(part) /\ "text" \notin DOMAIN part
             /\ "functionCall" \in DOMAIN part
             /\ HasResponse(conts, i, part)
          THEN LET func_call == part.functionCall IN
               <<[id |-> GetOr(func_call.name, "unknown") \o ":0",
                  type |-> "function",
                  function |->
                      [name |-> GetOr(func_call.name, ""),
                       arguments |-> JsonDumps(GetOr(func_call.args, EmptyObject))]]>>
          ELSE <<>>)
         \o ToolCallsSkipUnanswered(conts, i, Tail(parts))

\* tool_calls of the model turn i: the functionCall parts that are kept.
RECURSIVE ToolCalls(_, _, _)
ToolCalls(conts, i, parts) ==
    IF parts = <<>> THEN <<>>
    ELSE LET part == Head(parts)
             is_last_message == (i = Len(conts))
         IN  (IF IsDict(part) /\ "text" \notin DOMAIN part
                 /\ "functionCall" \in DOMAIN part
                 /\ ~(is_last_message /\ ~HasResponse(conts, i, part))
              THEN LET func_call == part.functionCall IN
                   <<[id |-> GetOr(func_call.name, "unknown") \o ":0",
                      type |-> "function",
                      function |->
                          [name |-> GetOr(func_call.name, ""),
                           arguments |-> JsonDumps(GetOr(func_call.args, EmptyObject))]]>>
              ELSE <<>>)
             \o ToolCalls(conts, i, Tail(parts))

\* Variant: a blank text is kept as the empty string.
ModelMessagesEmptyString(conts, i) ==
    LET combined_text == CombinedText(conts[i].parts)
        tool_calls    == ToolCalls(conts, i, conts[i].parts)
    IN  IF Strip(combined_text) # <<>> \/ tool_calls # <<>>
        THEN IF tool_calls # <<>>
             THEN <<[role |-> "assistant", content |-> Some(Strip(combined_text)),
                     tool_calls |-> tool_calls]>>
             ELSE <<[role |-> "assistant", content |-> Some(Strip(combined_text))]>>
        ELSE <<>>

ModelMessages(conts, i) ==
    LET combined_text == CombinedText(conts[i].parts)
        tool_calls    == ToolCalls(conts, i, conts[i].parts)
        content       == IF Strip(combined_text) # <<>> THEN Some(Strip(combined_text))
                         ELSE None
    IN  IF Strip(combined_text) # <<>> \/ tool_calls # <<>>
        THEN IF tool_calls # <<>>
             THEN <<[role |-> "assistant", content |-> content,
                     tool_calls |-> tool_calls]>>
             ELSE <<[role |-> "assistant", content |-> content]>>
        ELSE <<>>

\* The messages of the turns i..Len(conts).
RECURSIVE MessagesFrom(_, _)
MessagesFrom(conts, i) ==
    IF i > Len(conts) THEN <<>>
    ELSE LET role == GetOr(conts[i].role, "user") IN
         (IF role = "user" THEN UserMessages(conts[i].parts)
          ELSE IF role = "model" THEN ModelMessages(conts, i)
          ELSE <<>>)
         \o MessagesFrom(conts, i + 1)

ConvertContentsToMessages(conts) == MessagesFrom(conts, 1)

(***************************************************************************)
(* OpenAIToGeminiConverter.clean_markdown_json and                         *)
(* convert_response_to_gemini.  In a message text the fence of three       *)
(* backquotes and the label json are the single characters "fence" and     *)
(* "json" of the model.                                                    *)
(***************************************************************************)

\* re.match of fence json \s* \n (.*?) \n fence $ on content.strip(), with
\* re.DOTALL: the whitespace run after "json" is greedy and gives back what
\* the newline after it needs; the group then runs to the closing newline
\* and fence at the end.
CleanMarkdownJson(content) ==
    LET s == Strip(content)
        \* the ends w of the whitespace run for which the pattern matches
        ends == {w \in 2..(Len(s) - 3) :
                    /\ \A i \in 3..w : IsWs(s[i])
                    /\ s[w + 1] = "\n"}
    IN  IF /\ Len(s) >= 5
           /\ s[1] = "fence" /\ s[2] = "json"
           /\ s[Len(s) - 1] = "\n" /\ s[Len(s)] = "fence"
           /\ ends # {}
        THEN LET w == CHOOSE x \in ends : \A y \in ends : y <= x
             IN  SubSeq(s, w + 2, Len(s) - 2)
        ELSE content

\* finish_reason_mapping.get(choice.finish_reason, "STOP")
ResponseFinishReason(finish_reason) ==
    IF finish_reason = None THEN "STOP"
    ELSE CASE finish_reason[1] = "stop" -> "STOP"
           [] finish_reason[1] = "length" -> "MAX_TOKENS"
           [] finish_reason[1] = "content_filter" -> "SAFETY"
           [] finish_reason[1] = "tool_calls" -> "STOP"
           [] finish_reason[1] = "function_call" -> "STOP"
           [] OTHER -> "STOP"

\* The functionCall parts of message.tool_calls; ok is FALSE when one of the
\* argument texts makes json.loads raise.
RECURSIVE ResponseToolCallParts(_)
ResponseToolCallParts(tool_calls) ==
    IF tool_calls = <<>> THEN [ok |-> TRUE, parts |-> <<>>]
    ELSE LET tool_call == Head(tool_calls)
             parsed    == JsonLoads(tool_call.function.arguments)
             rest      == ResponseToolCallParts(Tail(tool_calls))
         IN  IF parsed.ok /\ rest.ok
             THEN [ok |-> TRUE,
                   parts |-> <<[functionCall |-> [name |-> tool_call.function.name,
                                                  args |-> parsed.value]]>>
                             \o rest.parts]
             ELSE [ok |-> FALSE, parts |-> <<>>]

UsageMetadata(usage) ==
    [promptTokenCount |-> usage.prompt_tokens,
     candidatesTokenCount |-> usage.completion_tokens,
     totalTokenCount |-> usage.total_tokens,
     promptTokensDetails |-> <<[modality |-> "TEXT", tokenCount |-> usage.prompt_tokens]>>]

\* The call: ok with the value returned, or ~ok with the message of the
\* exception raised (IndexError of response.choices[0], JSONDecodeError of
\* json.loads).
ConvertResponseToGemini(resp) ==
    IF resp.choices = <<>>
    THEN [ok |-> FALSE, error |-> "list index out of range"]
    ELSE LET choice  == resp.choices[1]
             message == choice.message
             text    == IF message.content # <<>>
                        THEN <<[text |-> CleanMarkdownJson(message.content)]>>
                        ELSE <<>>
             calls   == ResponseToolCallParts(message.tool_calls)
             candidate == [content |-> [parts |-> text \o calls.parts, role |-> "model"],
                           finishReason |-> ResponseFinishReason(choice.finish_reason),
                           index |-> 0,
                           safetyRatings |-> None]
         IN  IF ~calls.ok THEN [ok |-> FALSE, error |-> "Expecting value"]
             ELSE IF resp.usage # None
             THEN [ok |-> TRUE,
                   value |-> [candidates |-> <<candidate>>,
                              promptFeedback |-> [safetyRatings |-> None],
                              usageMetadata |-> UsageMetadata(resp.usage[1])]]
             ELSE [ok |-> TRUE,
                   value |-> [candidates |-> <<candidate>>,
                              promptFeedback |-> [safetyRatings |-> None]]]

(***************************************************************************)
(* OpenAIToGeminiConverter.convert_streaming_chunk_to_gemini               *)
(***************************************************************************)

\* The accumulation dict, in insertion order.
HasKey(d, k) == \E i \in 1..Len(d) : d[i].key = k
KeyIndex(d, k) == CHOOSE i \in 1..Len(d) : d[i].key = k
DictGet(d, k) == d[KeyIndex(d, k)]
DictPut(d, e) ==
    IF HasKey(d, e.key) THEN [d EXCEPT ![KeyIndex(d, e.key)] = e] ELSE Append(d, e)
DictDel(d, k) == SelectSeq(d, LAMBDA e : e.key # k)

\* tool_call_key = f"tool_{tool_call_index}", index defaulting to 0.
ToolCallKey(tool_call) ==
    LET tool_call_index == IF tool_call.index # None THEN tool_call.index[1] ELSE 0
    IN  "tool_" \o ToString(tool_call_index)

NewEntry(key) == [key |-> key, id |-> "", name |-> "", arguments |-> <<>>]

FunctionCallPart(name, args) == [functionCall |-> [name |-> name, args |-> args]]

\* Variant: the argument text of a fragment replaces the buffer.
AccumulateToolCallReplacing(acc, tool_call) ==
    LET key == ToolCallKey(tool_call)
        a0  == IF HasKey(acc, key) THEN acc ELSE Append(acc, NewEntry(key))
        Update(e0) ==
            [key  |-> e0.key,
             id   |-> IF tool_call.id # "" /\ e0.id = "" THEN tool_call.id ELSE e0.id,
             name |-> IF tool_call.function # None
                         /\ tool_call.function[1].name # "" /\ e0.name = ""
                      THEN tool_call.function[1].name ELSE e0.name,
             arguments |->
                      IF tool_call.function # None
                         /\ tool_call.function[1].arguments # <<>>
                      THEN tool_call.function[1].arguments
                      ELSE e0.arguments]
        Complete(e, parsed) ==
            IF e.arguments # <<>> /\ e.name # "" /\ parsed.ok
            THEN [acc   |-> DictDel(a0, key),
                  parts |-> <<FunctionCallPart(e.name, parsed.value)>>,
                  keys  |-> <<key>>]
            ELSE [acc |-> DictPut(a0, e), parts |-> <<>>, keys |-> <<>>]
        Parse(e) == Complete(e, JsonLoads(e.arguments))
    IN  Parse(Update(DictGet(a0, key)))

\* Variant: a completed entry is left in the dict.
AccumulateToolCallKeeping(acc, tool_call) ==
    LET key == ToolCallKey(tool_call)
        a0  == IF HasKey(acc, key) THEN acc ELSE Append(acc, NewEntry(key))
        Update(e0) ==
            [key  |-> e0.key,
             id   |-> IF tool_call.id # "" /\ e0.id = "" THEN tool_call.id ELSE e0.id,
             name |-> IF tool_call.function # None
                         /\ tool_call.function[1].name # "" /\ e0.name = ""
                      THEN tool_call.function[1].name ELSE e0.name,
             arguments |->
                      IF tool_call.function # None
                         /\ tool_call.function[1].arguments # <<>>
                      THEN e0.arguments \o tool_call.function[1].arguments
                      ELSE e0.arguments]
        Complete(e, parsed) ==
            IF e.arguments # <<>> /\ e.name # "" /\ parsed.ok
            THEN [acc   |-> DictPut(a0, e),
                  parts |-> <<FunctionCallPart(e.name, parsed.value)>>,
                  keys  |-> <<key>>]
            ELSE [acc |-> DictPut(a0, e), parts |-> <<>>, keys |-> <<>>]
        Parse(e) == Complete(e, JsonLoads(e.arguments))
    IN  Parse(Update(DictGet(a0, key)))

\* Variant: a later non-empty function name replaces the entry's name.
AccumulateToolCallRenaming(acc, tool_call) ==
    LET key == ToolCallKey(tool_call)
        a0  == IF HasKey(acc, key) THEN acc ELSE Append(acc, NewEntry(key))
        Update(e0) ==
            [key  |-> e0.key,
             id   |-> IF tool_call.id # "" /\ e0.id = "" THEN tool_call.id ELSE e0.id,
             name |-> IF tool_call.function # None
                         /\ tool_call.function[1].name # ""
                      THEN tool_call.function[1].name ELSE e0.name,
             arguments |->
                      IF tool_call.function # None
                         /\ tool_call.function[1].arguments # <<>>
                      THEN e0.arguments \o tool_call.function[1].arguments
                      ELSE e0.arguments]
        Complete(e, parsed) ==
            IF e.arguments # <<>> /\ e.name # "" /\ parsed.ok
            THEN [acc   |-> DictDel(a0, key),
                  parts |-> <<FunctionCallPart(e.name, parsed.value)>>,
                  keys  |-> <<key>>]
            ELSE [acc |-> DictPut(a0, e), parts |-> <<>>, keys |-> <<>>]
        Parse(e) == Complete(e, JsonLoads(e.arguments))
    IN  Parse(Update(DictGet(a0, key)))

\* Variant: a completed entry is recreated with an empty buffer and the same
\* identifier and name.
AccumulateToolCallKeepingName(acc, tool_call) ==
    LET key == ToolCallKey(tool_call)
        a0  == IF HasKey(acc, key) THEN acc ELSE Append(acc, NewEntry(key))
        Update(e0) ==
            [key  |-> e0.key,
             id   |-> IF tool_call.id # "" /\ e0.id = "" THEN tool_call.id ELSE e0.id,
             name |-> IF tool_call.function # None
                         /\ tool_call.function[1].name # "" /\ e0.name = ""
                      THEN tool_call.function[1].name ELSE e0.name,
             arguments |->
                      IF tool_call.function # None
                         /\ tool_call.function[1].arguments # <<>>
                      THEN e0.arguments \o tool_call.function[1].arguments
                      ELSE e0.arguments]
        Complete(e, parsed) ==
            IF e.arguments # <<>> /\ e.name # "" /\ parsed.ok
            THEN [acc   |-> DictPut(a0, [e EXCEPT !.arguments = <<>>]),
                  parts |-> <<FunctionCallPart(e.name, parsed.value)>>,
                  keys  |-> <<key>>]
            ELSE [acc |-> DictPut(a0, e), parts |-> <<>>, keys |-> <<>>]
        Parse(e) == Complete(e, JsonLoads(e.arguments))
    IN  Parse(Update(DictGet(a0, key)))

\* Variant: the parse of the buffer is attempted only by an iteration whose
\* delta carries argument text.
AccumulateToolCallParsingOnText(acc, tool_call) ==
    LET key == ToolCallKey(tool_call)
        a0  == IF HasKey(acc, key) THEN acc ELSE Append(acc, NewEntry(key))
        Update(e0) ==
            [key  |-> e0.key,
             id   |-> IF tool_call.id # "" /\ e0.id = "" THEN tool_call.id ELSE e0.id,
             name |-> IF tool_call.function # None
                         /\ tool_call.function[1].name # "" /\ e0.name = ""
                      THEN tool_call.function[1].name ELSE e0.name,
             arguments |->
                      IF tool_call.function # None
                         /\ tool_call.function[1].arguments # <<>>
                      THEN e0.arguments \o tool_call.function[1].arguments
                      ELSE e0.arguments]
        Complete(e, parsed) ==
            IF /\ tool_call.function # None
               /\ tool_call.function[1].arguments # <<>>
               /\ e.arguments # <<>> /\ e.name # "" /\ parsed.ok
            THEN [acc   |-> DictDel(a0, key),
                  parts |-> <<FunctionCallPart(e.name, parsed.value)>>,
                  keys  |-> <<key>>]
            ELSE [acc |-> DictPut(a0, e), parts |-> <<>>, keys |-> <<>>]
        Parse(e) == Complete(e, JsonLoads(e.arguments))
    IN  Parse(Update(DictGet(a0, key)))

\* One iteration of the loop over delta.tool_calls.  The result carries the
\* dict after the iteration, the part appended (if any) and the key completed.
AccumulateToolCall(acc, tool_call) ==
    LET key == ToolCallKey(tool_call)
        a0  == IF HasKey(acc, key) THEN acc ELSE Append(acc, NewEntry(key))
        Update(e0) ==
            [key  |-> e0.key,
             id   |-> IF tool_call.id # "" /\ e0.id = "" THEN tool_call.id ELSE e0.id,
             name |-> IF tool_call.function # None
                         /\ tool_call.function[1].name # "" /\ e0.name = ""
                      THEN tool_call.function[1].name ELSE e0.name,
             arguments |->
                      IF tool_call.function # None
                         /\ tool_call.function[1].arguments # <<>>
                      THEN e0.arguments \o tool_call.function[1].arguments
                      ELSE e0.arguments]
        Complete(e, parsed) ==
            IF e.arguments # <<>> /\ e.name # "" /\ parsed.ok
            THEN [acc   |-> DictDel(a0, key),
                  parts |-> <<FunctionCallPart(e.name, parsed.value)>>,
                  keys  |-> <<key>>]
            ELSE [acc |-> DictPut(a0, e), parts |-> <<>>, keys |-> <<>>]
        Parse(e) == Complete(e, JsonLoads(e.arguments))
    IN  Parse(Update(DictGet(a0, key)))

\* Variant: the part of a later tool-call entry is put before the parts of
\* the entries that precede it.
RECURSIVE AccumulateToolCallsNewestFirst(_, _)
AccumulateToolCallsNewestFirst(acc, tool_calls) ==
    IF tool_calls = <<>> THEN [acc |-> acc, parts |-> <<>>, keys |-> <<>>]
    ELSE LET first == AccumulateToolCall(acc, Head(tool_calls))
             rest  == AccumulateToolCallsNewestFirst(first.acc, Tail(tool_calls))
         IN  [acc   |-> rest.acc,
              parts |-> rest.parts \o first.parts,
              keys  |-> first.keys \o rest.keys]

\* The loop over delta.tool_calls, from the first entry to the last.
RECURSIVE AccumulateToolCalls(_, _)
AccumulateToolCalls(acc, tool_calls) ==
    IF tool_calls = <<>> THEN [acc |-> acc, parts |-> <<>>, keys |-> <<>>]
    ELSE LET first == AccumulateToolCall(acc, Head(tool_calls))
             rest  == AccumulateToolCalls(first.acc, Tail(tool_calls))
         IN  [acc   |-> rest.acc,
              parts |-> first.parts \o rest.parts,
              keys  |-> first.keys \o rest.keys]

\* finish_reason_mapping of the streaming converter.
StreamFinishReasonMapping ==
    [r \in {"stop", "length", "content_filter", "tool_calls"} |->
        CASE r = "stop" -> "STOP"
          [] r = "length" -> "MAX_TOKENS"
          [] r = "content_filter" -> "SAFETY"
          [] r = "tool_calls" -> "STOP"]

\* finish_reason_mapping.get(choice.finish_reason) if choice.finish_reason else None
StreamFinishReason(finish_reason) ==
    IF finish_reason # None /\ finish_reason[1] # ""
    THEN IF finish_reason[1] \in DOMAIN StreamFinishReasonMapping
         THEN Some(StreamFinishReasonMapping[finish_reason[1]])
         ELSE None
    ELSE None

GeminiChunk(parts, finishReason) ==
    [candidates |-> <<[content |-> [parts |-> parts, role |-> "model"],
                       finishReason |-> finishReason,
                       index |-> 0,
                       safetyRatings |-> <<>>]>>]

\* Variant: a chunk is returned also when there are no parts and no finish
\* reason.
ConvertStreamingChunkAlwaysEmitting(chunk, acc) ==
    IF chunk.choices = <<>>
    THEN [result |-> None, acc |-> acc, keys |-> <<>>]
    ELSE LET choice == chunk.choices[1]
             Text(delta) == IF delta.content # "" THEN <<[text |-> delta.content]>>
                            ELSE <<>>
             Return(parts, calls) ==
                 [result |-> Some(GeminiChunk(parts,
                                    StreamFinishReason(choice.finish_reason))),
                  acc |-> calls.acc,
                  keys |-> calls.keys]
             Parts(delta, calls) == Return(Text(delta) \o calls.parts, calls)
             Convert(delta) == Parts(delta, AccumulateToolCalls(acc, delta.tool_calls))
         IN  IF choice.delta = None
             THEN [result |-> None, acc |-> acc, keys |-> <<>>]
             ELSE Convert(choice.delta[1])

\* The whole call: result is the returned value (None or Some(chunk)), acc
\* the dict as the call leaves it, keys the slot keys it completed.
ConvertStreamingChunkToGemini(chunk, acc) ==
    IF chunk.choices = <<>>
    THEN [result |-> None, acc |-> acc, keys |-> <<>>]
    ELSE LET choice == chunk.choices[1]
             Text(delta) == IF delta.content # "" THEN <<[text |-> delta.content]>>
                            ELSE <<>>
             Return(parts, calls) ==
                 IF parts = <<>> /\ (choice.finish_reason = None
                                     \/ choice.finish_reason[1] = "")
                 THEN [result |-> None, acc |-> calls.acc, keys |-> calls.keys]
                 ELSE [result |-> Some(GeminiChunk(parts,
                                         StreamFinishReason(choice.finish_reason))),
                       acc |-> calls.acc,
                       keys |-> calls.keys]
             Parts(delta, calls) == Return(Text(delta) \o calls.parts, calls)
             Convert(delta) == Parts(delta, AccumulateToolCalls(acc, delta.tool_calls))
         IN  IF choice.delta = None
             THEN [result |-> None, acc |-> acc, keys |-> <<>>]
             ELSE Convert(choice.delta[1])

(***************************************************************************)
(* GeminiProxyService.stream_generate_content                              *)
(***************************************************************************)

\* Variant: a buffer that does not parse is emitted with empty arguments.
RECURSIVE FlushResidualLenient(_)
FlushResidualLenient(acc) ==
    IF acc = <<>> THEN [frames |-> <<>>, keys |-> <<>>]
    ELSE LET tool_data == Head(acc)
             parsed    == JsonLoads(tool_data.arguments)
             rest      == FlushResidualLenient(Tail(acc))
         IN  IF tool_data.name # "" /\ tool_data.arguments # <<>>
             THEN [frames |-> <<GeminiChunk(
                                   <<FunctionCallPart(tool_data.name,
                                       IF parsed.ok THEN parsed.value
                                       ELSE [object |-> <<>>])>>,
                                   Some("STOP"))>> \o rest.frames,
                   keys |-> <<tool_data.key>> \o rest.keys]
             ELSE rest

\* Variant: an entry is emitted whether or not it has a function name.
RECURSIVE FlushResidualNameless(_)
FlushResidualNameless(acc) ==
    IF acc = <<>> THEN [frames |-> <<>>, keys |-> <<>>]
    ELSE LET tool_data == Head(acc)
             parsed    == JsonLoads(tool_data.arguments)
             rest      == FlushResidualNameless(Tail(acc))
         IN  IF tool_data.arguments # <<>> /\ parsed.ok
             THEN [frames |-> <<GeminiChunk(
                                   <<FunctionCallPart(tool_data.name, parsed.value)>>,
                                   Some("STOP"))>> \o rest.frames,
                   keys |-> <<tool_data.key>> \o rest.keys]
             ELSE rest

\* The residual flush after the fragment source is exhausted: one frame per
\* entry, in dict order, that has a name and arguments that parse.
RECURSIVE FlushResidual(_)
FlushResidual(acc) ==
    IF acc = <<>> THEN [frames |-> <<>>, keys |-> <<>>]
    ELSE LET tool_data == Head(acc)
             parsed    == JsonLoads(tool_data.arguments)
             rest      == FlushResidual(Tail(acc))
         IN  IF tool_data.name # "" /\ tool_data.arguments # <<>> /\ parsed.ok
             THEN [frames |-> <<GeminiChunk(
                                   <<FunctionCallPart(tool_data.name, parsed.value)>>,
                                   Some("STOP"))>> \o rest.frames,
                   keys |-> <<tool_data.key>> \o rest.keys]
             ELSE rest

ErrorFrame(e) == [error |-> [message |-> e, type |-> "internal_error"]]

\* Messages of the exceptions the network client or a conversion may raise.
Errors == {"timeout", "bad request"}

\* The fragments the backend may deliver.
ToolCallDelta(index, id, name, arguments) ==
    [index |-> index, id |-> id,
     function |-> Some([name |-> name, arguments |-> arguments])]

Fragment(content, tool_calls, finish_reason) ==
    [choices |-> <<[delta |-> Some([content |-> content, tool_calls |-> tool_calls]),
                    finish_reason |-> finish_reason]>>]

FinishReasons == {"stop", "length", "content_filter", "tool_calls", "function_call"}

ArgumentTexts == {<<"{", "k">>, <<"1", "}">>, <<"{", "}">>, <<"1">>}

ToolCallDeltas ==
    \* the first fragment of a call: identifier and name, with or without text
    {ToolCallDelta(s[1], s[2], s[3], a) :
        s \in {<<None, "call_a", "f">>, <<Some(1), "call_b", "g">>,
               <<None, "call_b", "g">>},
        a \in {<<>>, <<"{", "}">>}}
    \cup
    \* a later fragment: argument text only
    {ToolCallDelta(None, "", "", a) : a \in ArgumentTexts}
    \cup
    {ToolCallDelta(Some(1), "", "", a) : a \in {<<"{", "k">>, <<"1", "}">>}}
    \cup
    \* a delta with an explicit index 0 and no function object
    {[index |-> Some(0), id |-> "", function |-> None]}

Fragments ==
    {[choices |-> <<>>]}
    \cup {[choices |-> <<[delta |-> None, finish_reason |-> Some("stop")]>>]}
    \cup {Fragment("", <<>>, Some(r)) : r \in FinishReasons}
    \cup {Fragment("t", <<>>, None)}
    \cup {Fragment("", <<tc>>, None) : tc \in ToolCallDeltas}
    \cup {Fragment("t", <<ToolCallDelta(None, "call_a", "f", <<"{", "}">>),
                         ToolCallDelta(Some(1), "call_b", "g", <<"{", "}">>)>>,
                   Some("tool_calls"))}

Init ==
    /\ pc = "start"
    /\ accumulated_tool_calls = <<>>
    /\ all_chunks = <<>>
    /\ gemini_chunk = None
    /\ yielded = <<>>
    /\ completed_keys = <<>>
    /\ raised = None
    /\ contents = <<>>
    /\ messages = <<>>
    /\ request_data = None
    /\ completion_params = None
    /\ response = None
    /\ gemini_response = None
    /\ http_exception = None
    /\ create_calls = 0
    /\ CfgIdle
    /\ MdIdle
    /\ TasksIdle

\* await self.client.chat.completions.create(**completion_params) returns
\* the stream; the accumulation state starts empty.
StreamCreate ==
    /\ pc = "start"
    /\ pc' = "iterate"
    /\ create_calls' = create_calls + 1
    /\ accumulated_tool_calls' = <<>>
    /\ all_chunks' = <<>>
    /\ UNCHANGED <<gemini_chunk, yielded, completed_keys, raised, convVars, genVars,
                   cfgVars, mdVars, tasks>>

\* One iteration of `async for chunk in stream`.
ConsumeFragment ==
    /\ pc = "iterate"
    /\ Len(all_chunks) < MaxFragments
    /\ \E chunk \in Fragments :
          LET Yield(r) ==
                /\ accumulated_tool_calls' = r.acc
                /\ gemini_chunk' = r.result
                /\ yielded' = IF r.result # None THEN Append(yielded, r.result[1])
                              ELSE yielded
                /\ completed_keys' = completed_keys \o r.keys
          IN  /\ all_chunks' = Append(all_chunks, chunk)
              /\ Yield(ConvertStreamingChunkToGemini(chunk, accumulated_tool_calls))
    /\ UNCHANGED <<pc, raised, create_calls, convVars, genVars, cfgVars, mdVars,
                   tasks>>

\* The fragment source is exhausted: the residual flush, then the summary.
StreamEnd ==
    /\ pc = "iterate"
    /\ LET f == FlushResidual(accumulated_tool_calls) IN
          /\ yielded' = yielded \o f.frames
          /\ completed_keys' = completed_keys \o f.keys
    /\ pc' = "done"
    /\ UNCHANGED <<accumulated_tool_calls, all_chunks, gemini_chunk, raised,
                   create_calls, convVars, genVars, cfgVars, mdVars, tasks>>

\* Variant: the exception is caught inside the loop, which goes on.
StreamRaiseAndGoOn ==
    /\ pc \in {"start", "iterate"}
    /\ \E e \in Errors :
          /\ raised' = Some(e)
          /\ yielded' = Append(yielded, ErrorFrame(e))
    /\ create_calls' = IF pc = "start" THEN create_calls + 1 ELSE create_calls
    /\ pc' = IF pc = "iterate" THEN "iterate" ELSE "done"
    /\ UNCHANGED <<accumulated_tool_calls, all_chunks, gemini_chunk, completed_keys,
                   convVars, genVars, cfgVars, mdVars, tasks>>

\* `except Exception as e`: the client's create raises (pc = "start", the
\* call was made), or the client's iteration or the conversion of a fragment
\* raises (pc = "iterate"); one error frame is yielded and the generator
\* returns.
StreamRaise ==
    /\ pc \in {"start", "iterate"}
    /\ \E e \in Errors :
          /\ raised' = Some(e)
          /\ yielded' = Append(yielded, ErrorFrame(e))
    /\ create_calls' = IF pc = "start" THEN create_calls + 1 ELSE create_calls
    /\ pc' = "done"
    /\ UNCHANGED <<accumulated_tool_calls, all_chunks, gemini_chunk, completed_keys,
                   convVars, genVars, cfgVars, mdVars, tasks>>

Next == StreamCreate \/ ConsumeFragment \/ StreamEnd \/ StreamRaise

Spec == Init /\ [][Next]_vars

(***************************************************************************)
(* convert_contents_to_messages applied to the conversations of the model. *)
(***************************************************************************)
TextHi == <<"h", "i">>
TextBlank == <<" ">>

FunctionCall(name, args) == [functionCall |-> [name |-> Some(name), args |-> args]]
FunctionResponse(name) ==
    [functionResponse |-> [name |-> Some(name), response |-> Some(EmptyObject)]]

UserParts ==
    {[text |-> TextHi], [text |-> TextBlank], [str |-> TextHi],
     FunctionResponse("f"), FunctionResponse("g")}

ModelParts ==
    {[text |-> TextHi], [text |-> TextBlank],
     FunctionCall("f", Some(JsonLoads(<<"{", "k", "1", "}">>).value)),
     FunctionCall("g", None)}

PartLists(P) == UNION {[1..n -> P] : n \in 0..MaxParts}

\* Turns of several parts: text around two functionResponses, and a blank
\* text before a functionCall.
LongTurns ==
    {[role |-> Some("user"),
      parts |-> <<[text |-> TextHi], FunctionResponse("f"), FunctionResponse("g")>>],
     [role |-> Some("user"),
      parts |-> <<FunctionResponse("g"), [text |-> TextBlank], FunctionResponse("f")>>],
     [role |-> Some("model"),
      parts |-> <<[text |-> TextBlank], FunctionCall("g", None)>>]}

Turns ==
    {[role |-> Some("user"), parts |-> ps] : ps \in PartLists(UserParts)}
    \cup {[role |-> Some("model"), parts |-> ps] : ps \in PartLists(ModelParts)}
    \cup {[role |-> None, parts |-> <<FunctionResponse("f")>>],
          [role |-> Some("function"), parts |-> <<[text |-> TextHi]>>]}
    \cup LongTurns

Conversations == UNION {[1..n -> Turns] : n \in 0..MaxTurns}

InitConv ==
    /\ pc = "convert"
    /\ contents \in Conversations
    /\ messages = <<>>
    /\ raised = None
    /\ accumulated_tool_calls = <<>>
    /\ all_chunks = <<>>
    /\ gemini_chunk = None
    /\ yielded = <<>>
    /\ completed_keys = <<>>
    /\ request_data = None
    /\ completion_params = None
    /\ response = None
    /\ gemini_response = None
    /\ http_exception = None
    /\ create_calls = 0
    /\ CfgIdle
    /\ MdIdle
    /\ TasksIdle

ConvertContents ==
    /\ pc = "convert"
    /\ messages' = ConvertContentsToMessages(contents)
    /\ pc' = "converted"
    /\ UNCHANGED <<contents, raised, create_calls, streamVars, genVars, cfgVars,
                   mdVars, tasks>>

NextConv == ConvertContents

SpecConv == InitConv /\ [][NextConv]_vars

(***************************************************************************)
(* GeminiProxyService.generate_content                                     *)
(***************************************************************************)

\* messages of the backend request: the converted contents, with the system
\* instruction's text, when not blank, inserted in front.
RECURSIVE SystemText(_)
SystemText(parts) ==
    IF parts = <<>> THEN <<>>
    ELSE (IF "text" \in DOMAIN Head(parts) THEN Head(parts).text ELSE <<>>)
         \o SystemText(Tail(parts))

\* Variant: the system message is added after the converted turns.
RequestMessagesAppending(req) ==
    LET converted == ConvertContentsToMessages(req.contents) IN
    IF /\ req.systemInstruction # None
       /\ req.systemInstruction[1].parts # <<>>
       /\ Strip(SystemText(req.systemInstruction[1].parts)) # <<>>
    THEN converted
         \o <<[role |-> "system",
                content |-> Strip(SystemText(req.systemInstruction[1].parts))]>>
    ELSE converted

RequestMessages(req) ==
    LET converted == ConvertContentsToMessages(req.contents) IN
    IF /\ req.systemInstruction # None
       /\ req.systemInstruction[1].parts # <<>>
       /\ Strip(SystemText(req.systemInstruction[1].parts)) # <<>>
    THEN <<[role |-> "system",
            content |-> Strip(SystemText(req.systemInstruction[1].parts))]>>
         \o converted
    ELSE converted

Requests ==
    {[contents |-> c, systemInstruction |-> si] :
        c \in {<<>>,
               <<[role |-> Some("user"), parts |-> <<[text |-> TextHi]>>]>>,
               <<[role |-> Some("model"), parts |-> <<FunctionCall("f", None)>>],
                 [role |-> Some("user"), parts |-> <<FunctionResponse("f")>>]>>},
        si \in {None,
                Some([parts |-> <<>>]),
                Some([parts |-> <<[text |-> TextBlank]>>]),
                Some([parts |-> <<[text |-> TextHi], [text |-> TextBlank]>>]),
                Some([parts |-> <<[inlineData |-> "d"], [text |-> TextHi]>>])}}

ResponseToolCall(name, arguments) ==
    [function |-> [name |-> name, arguments |-> arguments]]

Responses ==
    {[choices |-> <<>>, usage |-> None]}
    \cup
    {[choices |-> <<[message |-> [content |-> c, tool_calls |-> tcs],
                     finish_reason |-> fr]>>,
      usage |-> u] :
        c \in {<<>>, TextHi, <<"fence", "json", "\n", "{", "}", "\n", "fence">>},
        tcs \in {<<>>,
                 <<ResponseToolCall("f", <<"{", "k", "1", "}">>)>>,
                 <<ResponseToolCall("f", <<"{", "k">>)>>},
        fr \in {None, Some("stop"), Some("length"), Some("function_call"),
                Some("other")},
        u \in {None, Some([prompt_tokens |-> 1, completion_tokens |-> 2,
                           total_tokens |-> 3])}}

\* raise HTTPException(status_code=500, detail=str(e))
HTTPException(status_code, detail) == [status_code |-> status_code, detail |-> detail]

\* The entry of generate_content (pc = "gen_start") or of
\* stream_generate_content (pc = "stream_request") with a request.
InitGen ==
    /\ pc \in {"gen_start", "stream_request"}
    /\ request_data \in {Some(r) : r \in Requests}
    /\ completion_params = None
    /\ response = None
    /\ gemini_response = None
    /\ http_exception = None
    /\ raised = None
    /\ create_calls = 0
    /\ StreamIdle
    /\ ConvIdle
    /\ CfgIdle
    /\ MdIdle
    /\ TasksIdle

\* The conversion of the request raises before the client is called (a turn
\* or a part of a type the converter does not expect).
GenRequestRaises ==
    /\ pc = "gen_start"
    /\ \E e \in Errors :
          /\ raised' = Some(e)
          /\ http_exception' = Some(HTTPException(500, e))
    /\ pc' = "gen_done"
    /\ UNCHANGED <<request_data, completion_params, response, gemini_response,
                   create_calls, streamVars, convVars, cfgVars, mdVars, tasks>>

\* The request is converted and the client's create returns a response.
GenClientReturns ==
    /\ pc = "gen_start"
    /\ completion_params' = Some([messages |-> RequestMessages(request_data[1])])
    /\ create_calls' = create_calls + 1
    /\ \E r \in Responses : response' = Some(r)
    /\ pc' = "gen_response"
    /\ UNCHANGED <<request_data, gemini_response, http_exception, raised,
                   streamVars, convVars, cfgVars, mdVars, tasks>>

\* Variant: when the client's create raises, the handler calls it once more
\* before it gives up.
GenClientRaisesAndRetries ==
    /\ pc = "gen_start"
    /\ completion_params' = Some([messages |-> RequestMessages(request_data[1])])
    /\ create_calls' = create_calls + 2
    /\ \E e \in Errors :
          /\ raised' = Some(e)
          /\ http_exception' = Some(HTTPException(500, e))
    /\ pc' = "gen_done"
    /\ UNCHANGED <<request_data, response, gemini_response, streamVars, convVars,
                   cfgVars, mdVars, tasks>>

\* The client's create raises: HTTPException(500, detail = str(e)).
GenClientRaises ==
    /\ pc = "gen_start"
    /\ completion_params' = Some([messages |-> RequestMessages(request_data[1])])
    /\ create_calls' = create_calls + 1
    /\ \E e \in Errors :
          /\ raised' = Some(e)
          /\ http_exception' = Some(HTTPException(500, e))
    /\ pc' = "gen_done"
    /\ UNCHANGED <<request_data, response, gemini_response, streamVars, convVars,
                   cfgVars, mdVars, tasks>>

\* Variant: a response that cannot be converted is answered with an empty
\* response instead of a failure.
GenConvertResponseSwallowing ==
    /\ pc = "gen_response"
    /\ LET r == ConvertResponseToGemini(response[1]) IN
          IF r.ok
          THEN /\ gemini_response' = Some(r.value)
               /\ raised' = raised
          ELSE /\ gemini_response' = Some([candidates |-> <<>>])
               /\ raised' = Some(r.error)
    /\ http_exception' = http_exception
    /\ pc' = "gen_done"
    /\ UNCHANGED <<request_data, completion_params, response, create_calls,
                   streamVars, convVars, cfgVars, mdVars, tasks>>

\* The response is converted and returned, or the conversion raises and the
\* handler raises HTTPException(500, detail = str(e)).
GenConvertResponse ==
    /\ pc = "gen_response"
    /\ LET r == ConvertResponseToGemini(response[1]) IN
          IF r.ok
          THEN /\ gemini_response' = Some(r.value)
               /\ raised' = raised
               /\ http_exception' = http_exception
          ELSE /\ gemini_response' = gemini_response
               /\ raised' = Some(r.error)
               /\ http_exception' = Some(HTTPException(500, r.error))
    /\ pc' = "gen_done"
    /\ UNCHANGED <<request_data, completion_params, response, create_calls,
                   streamVars, convVars, cfgVars, mdVars, tasks>>

\* stream_generate_content up to the call of the client: the backend request
\* is built as in generate_content, with stream = True.  The iteration that
\* follows does not read the request; Spec explores it from pc = "start".
StreamBuildRequest ==
    /\ pc = "stream_request"
    /\ completion_params' = Some([messages |-> RequestMessages(request_data[1]),
                                  stream |-> TRUE])
    /\ pc' = "start"
    /\ UNCHANGED <<request_data, response, gemini_response, http_exception, raised,
                   create_calls, streamVars, convVars, cfgVars, mdVars, tasks>>

NextGen ==
    \/ GenRequestRaises
    \/ GenClientReturns
    \/ GenClientRaises
    \/ GenConvertResponse
    \/ StreamBuildRequest

SpecGen == InitGen /\ [][NextGen]_vars

(***************************************************************************)
(* One exchange of either kind: generate_content from its entry, or        *)
(* stream_generate_content from the call of the client.                    *)
(***************************************************************************)
InitService == Init \/ (InitGen /\ pc = "gen_start")

NextService ==
    \/ Next
    \/ GenRequestRaises
    \/ GenClientReturns
    \/ GenClientRaises
    \/ GenConvertResponse

SpecService == InitService /\ [][NextService]_vars


(***************************************************************************)
(* Two calls of stream_generate_content running as concurrent tasks.  The  *)
(* event loop runs one task at a time up to its next await, so a step is   *)
(* one task's create, one iteration of its loop, or its end.  Each task    *)
(* has its own locals: accumulated_tool_calls and all_chunks are created   *)
(* in the body of the call; the converter is static and keeps nothing.     *)
(***************************************************************************)
Tasks == {1, 2}

\* The fragments delivered to the tasks, all of slot index 0: a name alone,
\* argument text alone, and a whole call.
TaskFragments ==
    {Fragment("", <<ToolCallDelta(None, "call_a", "f", <<>>)>>, None),
     Fragment("", <<ToolCallDelta(None, "", "", <<"{", "}">>)>>, None),
     Fragment("", <<ToolCallDelta(None, "call_b", "g", <<"{", "}">>)>>, None)}

InitTasks ==
    /\ pc = "tasks"
    /\ tasks = [t \in Tasks |-> [pc |-> "start",
                                 accumulated_tool_calls |-> <<>>,
                                 all_chunks |-> <<>>,
                                 yielded |-> <<>>]]
    /\ raised = None
    /\ create_calls = 0
    /\ StreamIdle
    /\ ConvIdle
    /\ GenIdle
    /\ CfgIdle
    /\ MdIdle

otherVars == <<pc, raised, streamVars, convVars, genVars, cfgVars, mdVars>>

TaskCreate(t) ==
    /\ tasks[t].pc = "start"
    /\ tasks' = [tasks EXCEPT ![t].pc = "iterate",
                              ![t].accumulated_tool_calls = <<>>,
                              ![t].all_chunks = <<>>]
    /\ create_calls' = create_calls + 1
    /\ UNCHANGED otherVars

\* Variant: the accumulation mapping is kept by the service object, one for
\* all tasks (held here by task 1).
TaskConsumeShared(t) ==
    /\ tasks[t].pc = "iterate"
    /\ Len(tasks[t].all_chunks) < MaxFragments
    /\ \E chunk \in TaskFragments :
          LET Yield(r) ==
                tasks' = [tasks EXCEPT
                    ![t].all_chunks = Append(@, chunk),
                    ![t].yielded = IF r.result # None THEN Append(@, r.result[1])
                                   ELSE @,
                    ![1].accumulated_tool_calls = r.acc]
          IN  Yield(ConvertStreamingChunkToGemini(chunk,
                                                  tasks[1].accumulated_tool_calls))
    /\ UNCHANGED <<create_calls, otherVars>>

TaskConsume(t) ==
    /\ tasks[t].pc = "iterate"
    /\ Len(tasks[t].all_chunks) < MaxFragments
    /\ \E chunk \in TaskFragments :
          LET Yield(r) ==
                tasks' = [tasks EXCEPT
                    ![t].all_chunks = Append(@, chunk),
                    ![t].yielded = IF r.result # None THEN Append(@, r.result[1])
                                   ELSE @,
                    ![t].accumulated_tool_calls = r.acc]
          IN  Yield(ConvertStreamingChunkToGemini(chunk,
                                                  tasks[t].accumulated_tool_calls))
    /\ UNCHANGED <<create_calls, otherVars>>

TaskEnd(t) ==
    /\ tasks[t].pc = "iterate"
    /\ tasks' = [tasks EXCEPT
           ![t].pc = "done",
           ![t].yielded = @ \o FlushResidual(tasks[t].accumulated_tool_calls).frames]
    /\ UNCHANGED <<create_calls, otherVars>>

NextTasks == \E t \in Tasks : TaskCreate(t) \/ TaskConsume(t) \/ TaskEnd(t)

SpecTasks == InitTasks /\ [][NextTasks]_vars

(***************************************************************************)
(* GeminiToOpenAIConverter.convert_config_to_openai_params.  A config is  *)
(* a dict: a function from the keys it holds to their values.  The        *)
(* converter copies a value as it is, and the model holds a value as its  *)
(* JSON text.                                                             *)
(***************************************************************************)
EmptyDict == [k \in {} |-> ""]

\* Variant: topK is passed on as top_k.
ConvertConfigToOpenaiParamsWithTopK(config) ==
    IF config = None \/ DOMAIN config[1] = {} THEN EmptyDict
    ELSE LET Param(key, name) ==
                 IF key \in DOMAIN config[1] THEN name :> config[1][key]
                 ELSE EmptyDict
         IN  Param("temperature", "temperature")
             @@ Param("maxOutputTokens", "max_tokens")
             @@ Param("topP", "top_p")
             @@ Param("topK", "top_k")
             @@ Param("stopSequences", "stop")

ConvertConfigToOpenaiParams(config) ==
    IF config = None \/ DOMAIN config[1] = {} THEN EmptyDict
    ELSE LET Param(key, name) ==
                 IF key \in DOMAIN config[1] THEN name :> config[1][key]
                 ELSE EmptyDict
         IN  Param("temperature", "temperature")
             @@ Param("maxOutputTokens", "max_tokens")
             @@ Param("topP", "top_p")
             @@ Param("stopSequences", "stop")

ConfigKeys == {"temperature", "maxOutputTokens", "topP", "topK", "stopSequences"}

ConfigValues(key) ==
    CASE key = "temperature" -> {"0", "0.7"}
      [] key = "maxOutputTokens" -> {"0", "1024"}
      [] key = "topP" -> {"0", "0.9"}
      [] key = "topK" -> {"1", "40"}
      [] key = "stopSequences" -> {"[]", "[x]"}

\* generationConfig absent, or a dict holding any subset of the keys.
Configs ==
    {None}
    \cup {Some(c) : c \in UNION {
             {f \in [keys -> UNION {ConfigValues(k) : k \in ConfigKeys}] :
                 \A k \in keys : f[k] \in ConfigValues(k)} :
             keys \in SUBSET ConfigKeys}}

InitConfig ==
    /\ pc = "config"
    /\ generation_config \in Configs
    /\ openai_params = None
    /\ raised = None
    /\ create_calls = 0
    /\ StreamIdle
    /\ ConvIdle
    /\ GenIdle
    /\ MdIdle
    /\ TasksIdle

ConvertConfig ==
    /\ pc = "config"
    /\ openai_params' = Some(ConvertConfigToOpenaiParams(generation_config))
    /\ pc' = "config_done"
    /\ UNCHANGED <<generation_config, raised, create_calls, streamVars, convVars,
                   genVars, mdVars, tasks>>

NextConfig == ConvertConfig

SpecConfig == InitConfig /\ [][NextConfig]_vars

(***************************************************************************)
(* OpenAIToGeminiConverter.clean_markdown_json applied to the message     *)
(* texts of the model: the texts, not empty (the caller passes a truthy   *)
(* message.content), of at most MaxText characters.                       *)
(***************************************************************************)
TextAlphabet == {"fence", "json", "\n", " ", "1"}

Texts == UNION {[1..n -> TextAlphabet] : n \in 1..MaxText}

InitClean ==
    /\ pc = "clean"
    /\ message_content \in Texts
    /\ cleaned_content = None
    /\ raised = None
    /\ create_calls = 0
    /\ StreamIdle
    /\ ConvIdle
    /\ GenIdle
    /\ CfgIdle
    /\ TasksIdle

CleanContent ==
    /\ pc = "clean"
    /\ cleaned_content' = Some(CleanMarkdownJson(message_content))
    /\ pc' = "cleaned"
    /\ UNCHANGED <<message_content, raised, create_calls, streamVars, convVars,
                   genVars, cfgVars, tasks>>

NextClean == CleanContent

SpecClean == InitClean /\ [][NextClean]_vars

(***************************************************************************)
(* Helpers of the properties.                                              *)
(***************************************************************************)
IsErrorFrame(f) == "error" \in DOMAIN f
IsFunctionCall(p) == "functionCall" \in DOMAIN p
FrameParts(f) == f.candidates[1].content.parts
Occurrences(seq, x) == Cardinality({i \in 1..Len(seq) : seq[i] = x})
Range(seq) == {seq[i] : i \in 1..Len(seq)}
HasDelta(chunk) == chunk.choices # <<>> /\ chunk.choices[1].delta # None
DeltaOf(chunk) == chunk.choices[1].delta[1]

\* A fragment that carries one tool-call delta and neither text nor a
\* finish reason.
IsToolOnly(chunk) ==
    /\ HasDelta(chunk)
    /\ DeltaOf(chunk).content = ""
    /\ chunk.choices[1].finish_reason = None
    /\ Len(DeltaOf(chunk).tool_calls) = 1
    /\ DeltaOf(chunk).tool_calls[1].function # None

OnlyCall(chunk) == DeltaOf(chunk).tool_calls[1]

\* The stream of one tool call: the name alone, then argument text only.
RECURSIVE ArgumentsUpTo(_, _)
ArgumentsUpTo(chunks, n) ==
    IF n <= 1 THEN <<>>
    ELSE ArgumentsUpTo(chunks, n - 1) \o OnlyCall(chunks[n]).function[1].arguments

OneCallStream(chunks) ==
    /\ Len(chunks) >= 1
    /\ IsToolOnly(chunks[1])
    /\ OnlyCall(chunks[1]).function[1].name # ""
    /\ OnlyCall(chunks[1]).function[1].arguments = <<>>
    /\ \A i \in 2..Len(chunks) :
          /\ IsToolOnly(chunks[i])
          /\ ToolCallKey(OnlyCall(chunks[i])) = ToolCallKey(OnlyCall(chunks[1]))
          /\ OnlyCall(chunks[i]).function[1].name = ""
          /\ OnlyCall(chunks[i]).function[1].arguments # <<>>
    /\ \A j \in 1..(Len(chunks) - 1) : ~JsonLoads(ArgumentsUpTo(chunks, j)).ok

\* C1: while the stream of one tool call (name in fragment 1, argument text
\* in the later fragments) has not yet made the running buffer parse, every
\* fragment returns nothing and nothing is yielded; the fragment that makes
\* it parse returns a chunk whose parts are exactly one functionCall with
\* that name and the parse of the concatenated text, and it is the only
\* frame of the stream.
C1_OneCallEmittedOnceWhenParseable ==
    (raised = None /\ OneCallStream(all_chunks)) =>
        LET text   == ArgumentsUpTo(all_chunks, Len(all_chunks))
            parsed == JsonLoads(text)
            name   == OnlyCall(all_chunks[1]).function[1].name
        IN  IF parsed.ok
            THEN /\ gemini_chunk # None
                 /\ FrameParts(gemini_chunk[1]) =
                        <<[functionCall |-> [name |-> name, args |-> parsed.value]]>>
                 /\ yielded = <<gemini_chunk[1]>>
            ELSE gemini_chunk = None /\ yielded = <<>>

C1_Witness ==
    /\ raised = None
    /\ OneCallStream(all_chunks)
    /\ Len(all_chunks) = 3
    /\ gemini_chunk # None
    /\ Len(yielded) = 1

\* The tool-call deltas of the consumed fragments that belong to slot key k
\* and carry a non-empty function name.
NameDeliveries(chunks, k) ==
    Cardinality({ij \in (1..Len(chunks)) \X (1..2) :
        /\ HasDelta(chunks[ij[1]])
        /\ ij[2] <= Len(DeltaOf(chunks[ij[1]]).tool_calls)
        /\ LET tc == DeltaOf(chunks[ij[1]]).tool_calls[ij[2]] IN
              /\ ToolCallKey(tc) = k
              /\ tc.function # None
              /\ tc.function[1].name # ""})

\* C2 (as claimed): over the fragments and the flush, no slot key produces
\* a second functionCall.
C2_AtMostOncePerSlot ==
    \A i, j \in 1..Len(completed_keys) :
        completed_keys[i] = completed_keys[j] => i = j

\* C2 (amended): a slot key produces at most one functionCall per delivery
\* of a function name for that slot, over the fragments and the flush, and
\* the functionCall parts yielded are exactly the recorded completions.
C2_AtMostOncePerNameDelivery ==
    /\ \A k \in Range(completed_keys) :
          Occurrences(completed_keys, k) <= NameDeliveries(all_chunks, k)
    /\ Len(completed_keys) =
          Cardinality({ip \in (1..Len(yielded)) \X (1..3) :
              /\ ~IsErrorFrame(yielded[ip[1]])
              /\ ip[2] <= Len(FrameParts(yielded[ip[1]]))
              /\ IsFunctionCall(FrameParts(yielded[ip[1]])[ip[2]])})

C2_Witness ==
    /\ pc = "done"
    /\ raised = None
    /\ \E k \in Range(completed_keys) : Occurrences(completed_keys, k) = 2

\* C6: when the handler catches an exception, the frames end with exactly
\* one error frame, of type internal_error and carrying the exception's
\* message, the handler is finished, and without an exception there is no
\* error frame.
C6_OneTerminalErrorFrame ==
    LET errors == {i \in 1..Len(yielded) : IsErrorFrame(yielded[i])} IN
    IF raised = None THEN errors = {}
    ELSE /\ pc = "done"
         /\ errors = {Len(yielded)}
         /\ yielded[Len(yielded)] =
                [error |-> [message |-> raised[1], type |-> "internal_error"]]

C6_Witness ==
    /\ raised # None
    /\ Len(yielded) >= 3
    /\ Len(all_chunks) >= 2

\* The finish reason table of section 4.2, any other value giving STOP.
DocumentedFinishReason(r) ==
    CASE r = "stop" -> "STOP"
      [] r = "length" -> "MAX_TOKENS"
      [] r = "content_filter" -> "SAFETY"
      [] r = "tool_calls" -> "STOP"
      [] OTHER -> "STOP"

\* C7 (as claimed), for the fragments whose choice has a delta: the fragment
\* just converted, if it carries a finish reason, gave a chunk whose
\* finishReason is the documented mapping of it; finishReason is absent only
\* when the fragment carried none.
C7_FinishReasonMapped ==
    (pc = "iterate" /\ all_chunks # <<>> /\ HasDelta(all_chunks[Len(all_chunks)])) =>
        LET chunk == all_chunks[Len(all_chunks)] IN
        /\ chunk.choices[1].finish_reason # None =>
              /\ gemini_chunk # None
              /\ gemini_chunk[1].candidates[1].finishReason =
                    Some(DocumentedFinishReason(chunk.choices[1].finish_reason[1]))
        /\ (gemini_chunk # None /\ gemini_chunk[1].candidates[1].finishReason = None) =>
              (chunk.choices # <<>> /\ chunk.choices[1].finish_reason = None)

\* An entry with a function name whose buffer is not JSON.
Truncated(e) == e.name # "" /\ e.arguments # <<>> /\ ~JsonLoads(e.arguments).ok

\* C8: when the source ends while a slot has a name and a buffer that never
\* parsed, the stream completes normally: the frames already yielded stay,
\* no functionCall is yielded for that slot and no error frame is yielded.
C8_TruncatedCallDroppedSilently ==
    [][(/\ pc = "iterate"
        /\ pc' = "done"
        /\ raised' = None
        /\ \E i \in 1..Len(accumulated_tool_calls) :
              Truncated(accumulated_tool_calls[i]))
       => (/\ SubSeq(yielded', 1, Len(yielded)) = yielded
           /\ \A i \in 1..Len(yielded') : ~IsErrorFrame(yielded'[i])
           /\ \A i \in 1..Len(accumulated_tool_calls) :
                 Truncated(accumulated_tool_calls[i]) =>
                    Occurrences(completed_keys', accumulated_tool_calls[i].key)
                      = Occurrences(completed_keys, accumulated_tool_calls[i].key)
           /\ \A i \in (Len(yielded) + 1)..Len(yielded') :
                 \A j \in 1..Len(accumulated_tool_calls) :
                    Truncated(accumulated_tool_calls[j]) =>
                       FrameParts(yielded'[i])[1].functionCall.name
                         # accumulated_tool_calls[j].name)]_vars

C8_Witness ==
    /\ pc = "done"
    /\ raised = None
    /\ yielded # <<>>
    /\ \E i \in 1..Len(accumulated_tool_calls) : Truncated(accumulated_tool_calls[i])

\* The entries the flush is to emit, in dict order.
Flushable(acc) ==
    SelectSeq(acc, LAMBDA e :
        e.name # "" /\ e.arguments # <<>> /\ JsonLoads(e.arguments).ok)

\* C9: the flush appends, for every entry left that has a name and a buffer
\* that parses, exactly one chunk holding that functionCall with
\* finishReason STOP, and nothing for any other entry.
C9_FlushEmitsExactlyTheParseableEntries ==
    [][(pc = "iterate" /\ pc' = "done" /\ raised' = None) =>
        LET todo == Flushable(accumulated_tool_calls) IN
        /\ Len(yielded') = Len(yielded) + Len(todo)
        /\ SubSeq(yielded', 1, Len(yielded)) = yielded
        /\ \A i \in 1..Len(todo) :
              LET f == yielded'[Len(yielded) + i] IN
              /\ FrameParts(f) =
                    <<[functionCall |-> [name |-> todo[i].name,
                                         args |-> JsonLoads(todo[i].arguments).value]]>>
              /\ f.candidates[1].finishReason = Some("STOP")]_vars

\* The flush has run over an entry without a name whose buffer parses, an
\* entry with a name and no buffer, and a truncated one.
C9_Witness ==
    /\ pc = "done"
    /\ raised = None
    /\ \E i \in 1..Len(accumulated_tool_calls) :
          /\ accumulated_tool_calls[i].name = ""
          /\ JsonLoads(accumulated_tool_calls[i].arguments).ok
    /\ \E i \in 1..Len(accumulated_tool_calls) :
          Truncated(accumulated_tool_calls[i])

\* The names of the functionResponse parts of the request, in any turn.
ResponseNames(conts) ==
    {conts[i].parts[n].functionResponse.name :
        <<i, n>> \in {ij \in (1..Len(conts)) \X (1..(MaxParts + 1)) :
                        /\ ij[2] <= Len(conts[ij[1]].parts)
                        /\ "functionResponse" \in DOMAIN conts[ij[1]].parts[ij[2]]}}

\* C3 (as claimed): the final message of the converted request carries no
\* tool call unless the request holds a functionResponse of the same name.
C3_FinalMessageHasNoUnansweredCall ==
    (pc = "converted" /\ messages # <<>>) =>
        LET final == messages[Len(messages)] IN
        "tool_calls" \in DOMAIN final =>
            \A j \in 1..Len(final.tool_calls) :
                Some(final.tool_calls[j].function.name) \in ResponseNames(contents)

\* The function names of the tool calls of the converted request, in order.
RECURSIVE ToolCallNames(_)
ToolCallNames(msgs) ==
    IF msgs = <<>> THEN <<>>
    ELSE (IF "tool_calls" \in DOMAIN Head(msgs)
          THEN [j \in 1..Len(Head(msgs).tool_calls) |->
                    Head(msgs).tool_calls[j].function.name]
          ELSE <<>>)
         \o ToolCallNames(Tail(msgs))

\* The names of the functionCall parts of a turn of role model, in order.
FunctionCallNames(turn) ==
    IF turn.role = Some("model")
    THEN LET calls == SelectSeq(turn.parts, LAMBDA p : "functionCall" \in DOMAIN p)
         IN  [j \in 1..Len(calls) |-> calls[j].functionCall.name[1]]
    ELSE <<>>

\* The calls kept if a call were dropped only in the last turn and without
\* a functionResponse of its name anywhere in the request.
RECURSIVE KeptIfAnsweredAnywhere(_, _)
KeptIfAnsweredAnywhere(conts, i) ==
    IF i > Len(conts) THEN <<>>
    ELSE SelectSeq(FunctionCallNames(conts[i]),
                   LAMBDA n : ~(i = Len(conts) /\ Some(n) \notin ResponseNames(conts)))
         \o KeptIfAnsweredAnywhere(conts, i + 1)

\* The calls of the turns before the last.
RECURSIVE CallsBeforeLast(_, _)
CallsBeforeLast(conts, i) ==
    IF i >= Len(conts) THEN <<>>
    ELSE FunctionCallNames(conts[i]) \o CallsBeforeLast(conts, i + 1)

\* C4 (as claimed): a functionCall is dropped only when it is in the last
\* turn and no functionResponse of its name exists anywhere in the request.
C4_DroppedOnlyIfUnansweredAnywhere ==
    pc = "converted" => ToolCallNames(messages) = KeptIfAnsweredAnywhere(contents, 1)

\* C4 (amended): a functionCall is dropped exactly when it is in the last
\* turn of the request, also when an earlier user turn holds a
\* functionResponse of its name; the calls of every earlier model turn are
\* kept, in order.
C4_DroppedExactlyInLastTurn ==
    pc = "converted" => ToolCallNames(messages) = CallsBeforeLast(contents, 1)

C4_Witness ==
    /\ pc = "converted"
    /\ Len(contents) = 2
    /\ contents[1].role = Some("user")
    /\ contents[1].parts = <<FunctionResponse("f")>>
    /\ FunctionCallNames(contents[2]) = <<"f">>
    /\ ToolCallNames(messages) = <<>>

\* C5: the model turns before the last that hold functionCall parts give, in
\* order, the assistant messages that hold tool calls, and each such message
\* holds one tool call per functionCall of its turn, in order, with id
\* name:0 and that name, whether or not a functionResponse of the name exists.
C5_CallsBeforeLastTurnRetained ==
    pc = "converted" =>
        LET turns == SelectSeq(SubSeq(contents, 1, Len(contents) - 1),
                               LAMBDA t : FunctionCallNames(t) # <<>>)
            with  == SelectSeq(messages, LAMBDA m : "tool_calls" \in DOMAIN m)
        IN  /\ Len(with) >= Len(turns)
            /\ \A i \in 1..Len(turns) :
                  LET names == FunctionCallNames(turns[i]) IN
                  /\ with[i].role = "assistant"
                  /\ Len(with[i].tool_calls) = Len(names)
                  /\ \A j \in 1..Len(names) :
                        /\ with[i].tool_calls[j].id = names[j] \o ":0"
                        /\ with[i].tool_calls[j].function.name = names[j]

\* A call of g before the last turn, with no functionResponse of g at all.
C5_Witness ==
    /\ pc = "converted"
    /\ Len(contents) = 2
    /\ FunctionCallNames(contents[1]) = <<"g">>
    /\ Some("g") \notin ResponseNames(contents)
    /\ ToolCallNames(messages) = <<"g">>

\* C10 (as claimed): a fragment or a response without choices is nothing to
\* convert and never a failure: the streaming conversion returns nothing for
\* it, and generate_content gives an absent result and raises nothing.
C10_NoChoicesIsNotAFailure ==
    /\ (pc = "iterate" /\ all_chunks # <<>>
            /\ all_chunks[Len(all_chunks)].choices = <<>>) => gemini_chunk = None
    /\ (pc = "gen_done" /\ response # None /\ response[1].choices = <<>>) =>
            (raised = None /\ gemini_response = None)

\* C11: when generate_content ends after an exception of the client or of a
\* conversion, it has raised one HTTPException of status 500 whose detail is
\* the exception's message and it has returned no response; when it ends
\* without an exception it has returned a response and raised nothing, and
\* nothing is raised before it ends.
C11_FailureSurfacedAsHttp500 ==
    /\ pc \in {"gen_start", "gen_response"} =>
          (http_exception = None /\ gemini_response = None)
    /\ pc = "gen_done" =>
          IF raised # None
          THEN /\ http_exception = Some([status_code |-> 500, detail |-> raised[1]])
               /\ gemini_response = None
          ELSE /\ http_exception = None
               /\ gemini_response # None

\* The conversion of a response raised: the argument text of a tool call is
\* not JSON.
C11_Witness ==
    /\ pc = "gen_done"
    /\ response # None
    /\ response[1].choices # <<>>
    /\ raised = Some("Expecting value")
    /\ http_exception # None

\* A turn has text that is not blank.
HasText(turn) ==
    \E n \in 1..Len(turn.parts) :
        LET part == turn.parts[n]
            chars == IF "text" \in DOMAIN part THEN part.text
                     ELSE IF "str" \in DOMAIN part THEN part.str
                     ELSE <<>>
        IN  \E c \in Range(chars) : ~IsWs(c)

RoleOf(turn) == IF turn.role = None THEN "user" ELSE turn.role[1]

\* The role of a message, or for a tool message its tool_call_id.
MessageTag(m) == IF m.role = "tool" THEN m.tool_call_id ELSE m.role

\* The messages a turn is to give: for a user turn the user message, if its
\* text is not blank, then one tool message per functionResponse part.
ExpectedTags(conts, i) ==
    IF RoleOf(conts[i]) = "user"
    THEN LET frs == SelectSeq(conts[i].parts,
                              LAMBDA p : "functionResponse" \in DOMAIN p)
         IN  (IF HasText(conts[i]) THEN <<"user">> ELSE <<>>)
             \o [j \in 1..Len(frs) |-> frs[j].functionResponse.name[1] \o ":0"]
    ELSE IF RoleOf(conts[i]) = "model" /\ ModelMessages(conts, i) # <<>>
    THEN <<"assistant">>
    ELSE <<>>

RECURSIVE ExpectedTagsFrom(_, _)
ExpectedTagsFrom(conts, i) ==
    IF i > Len(conts) THEN <<>>
    ELSE ExpectedTags(conts, i) \o ExpectedTagsFrom(conts, i + 1)

\* C12: the messages are, turn after turn in input order, those of each
\* turn; a user turn gives its user message (when its text is not blank)
\* followed at once by one tool message per functionResponse part, in the
\* order of the parts, with tool_call_id name:0.
C12_ToolMessagesFollowTheirTurn ==
    pc = "converted" =>
        [i \in 1..Len(messages) |-> MessageTag(messages[i])]
            = ExpectedTagsFrom(contents, 1)

\* A user turn with text and two functionResponses, followed by a turn that
\* gives messages as well.
C12_Witness ==
    /\ pc = "converted"
    /\ Len(contents) = 2
    /\ contents[1].parts =
          <<[text |-> TextHi], FunctionResponse("f"), FunctionResponse("g")>>
    /\ Len(messages) >= 5
    /\ MessageTag(messages[2]) = "f:0"
    /\ MessageTag(messages[3]) = "g:0"
    /\ MessageTag(messages[4]) = "g:0"

\* The turns of role model that are to give an assistant message: those
\* with text that is not blank or with a functionCall that is retained (one
\* in a turn before the last).
EmittingModelTurns(conts) ==
    SelectSeq([i \in 1..Len(conts) |-> [turn |-> conts[i], last |-> i = Len(conts)]],
              LAMBDA t : /\ t.turn.role = Some("model")
                         /\ \/ HasText(t.turn)
                            \/ ~t.last /\ FunctionCallNames(t.turn) # <<>>)

\* C14: the assistant messages are, in order, those of the model turns with
\* text that is not blank or a retained tool call; the content of such a
\* message is absent exactly when the turn's text is blank and is never the
\* empty string, and it holds tool_calls exactly when a call is retained.
C14_AssistantMessageIffTextOrCall ==
    pc = "converted" =>
        LET turns == EmittingModelTurns(contents)
            msgs  == SelectSeq(messages, LAMBDA m : m.role = "assistant")
        IN  /\ Len(msgs) = Len(turns)
            /\ \A k \in 1..Len(msgs) :
                  /\ msgs[k].content = None <=> ~HasText(turns[k].turn)
                  /\ msgs[k].content # Some(<<>>)
                  /\ msgs[k].content # None =>
                        \E c \in Range(msgs[k].content[1]) : ~IsWs(c)
                  /\ "tool_calls" \in DOMAIN msgs[k] <=>
                        (~turns[k].last /\ FunctionCallNames(turns[k].turn) # <<>>)

\* A turn with blank text and a retained call gives a message without
\* content; a last turn holding only a functionCall gives no message.
C14_Witness ==
    /\ pc = "converted"
    /\ Len(contents) = 2
    /\ contents[1].parts = <<[text |-> TextBlank], FunctionCall("g", None)>>
    /\ contents[2].role = Some("model")
    /\ FunctionCallNames(contents[2]) # <<>>
    /\ Len(messages) = 1
    /\ messages[1].content = None

\* The mapping and the frames of one exchange that consumes the fragments
\* alone, starting from the empty mapping.
RECURSIVE RunAlone(_)
RunAlone(chunks) ==
    IF chunks = <<>> THEN [acc |-> <<>>, frames |-> <<>>]
    ELSE LET Step(before, r) ==
                 [acc |-> r.acc,
                  frames |-> before.frames
                             \o (IF r.result # None THEN <<r.result[1]>> ELSE <<>>)]
             After(before) ==
                 Step(before,
                      ConvertStreamingChunkToGemini(chunks[Len(chunks)], before.acc))
         IN  After(RunAlone(SubSeq(chunks, 1, Len(chunks) - 1)))

FramesAlone(chunks, ended) ==
    IF ended
    THEN RunAlone(chunks).frames \o FlushResidual(RunAlone(chunks).acc).frames
    ELSE RunAlone(chunks).frames

\* C13: under every interleaving of two streaming tasks, each task starts
\* from an empty mapping and, at every point, its mapping and the frames it
\* has emitted are those of the same fragments consumed alone.
C13_TasksShareNoAccumulationState ==
    pc = "tasks" =>
        \A t \in Tasks :
            /\ tasks[t].pc = "start" => tasks[t].accumulated_tool_calls = <<>>
            /\ tasks[t].accumulated_tool_calls = RunAlone(tasks[t].all_chunks).acc
            /\ tasks[t].yielded =
                  FramesAlone(tasks[t].all_chunks, tasks[t].pc = "done")

\* Task 1 has received a name and then the argument text and emitted its
\* call, while task 2 has received argument text only, for the same slot,
\* and holds it without a name.
C13_Witness ==
    /\ pc = "tasks"
    /\ Len(tasks[1].all_chunks) = 2
    /\ Len(tasks[1].yielded) = 1
    /\ FrameParts(tasks[1].yielded[1])[1].functionCall.name = "f"
    /\ Len(tasks[2].all_chunks) = 1
    /\ tasks[2].yielded = <<>>
    /\ Len(tasks[2].accumulated_tool_calls) = 1
    /\ tasks[2].accumulated_tool_calls[1].key = "tool_0"
    /\ tasks[2].accumulated_tool_calls[1].name = ""

\* The parameter of the backend each field of the config maps to.
ParamOf ==
    {<<"temperature", "temperature">>, <<"maxOutputTokens", "max_tokens">>,
     <<"topP", "top_p">>, <<"stopSequences", "stop">>}

\* C15: the parameters hold temperature, max_tokens, top_p and stop exactly
\* for the fields temperature, maxOutputTokens, topP and stopSequences that
\* the config holds, each with the config's value, and no other key (none
\* for topK); an absent or empty config gives no parameter.
C15_ConfigPresencePreserved ==
    pc = "config_done" =>
        LET config == IF generation_config = None THEN EmptyDict
                      ELSE generation_config[1]
            params == openai_params[1]
        IN  /\ \A kn \in ParamOf :
                  /\ kn[2] \in DOMAIN params <=> kn[1] \in DOMAIN config
                  /\ kn[1] \in DOMAIN config => params[kn[2]] = config[kn[1]]
            /\ DOMAIN params \subseteq {kn[2] : kn \in ParamOf}
            /\ DOMAIN config = {} => params = EmptyDict

\* A config holding topP and topK only gives top_p only.
C15_Witness ==
    /\ pc = "config_done"
    /\ generation_config # None
    /\ DOMAIN generation_config[1] = {"topP", "topK"}
    /\ generation_config[1]["topP"] = "0"
    /\ DOMAIN openai_params[1] = {"top_p"}
    /\ openai_params[1]["top_p"] = "0"

HasFence(text) == \E i \in 1..Len(text) : text[i] = "fence"

\* The interiors of a trimmed text read as one fenced block labelled json:
\* the opening fence and the label, whitespace up to a newline, the
\* interior, a newline and the closing fence.
Interiors(text) ==
    IF /\ Len(text) >= 5
       /\ text[1] = "fence" /\ text[2] = "json"
       /\ text[Len(text) - 1] = "\n" /\ text[Len(text)] = "fence"
    THEN {SubSeq(text, w + 2, Len(text) - 2) :
             w \in {v \in 2..(Len(text) - 3) :
                      /\ \A i \in 3..v : IsWs(text[i])
                      /\ text[v + 1] = "\n"}}
    ELSE {}

\* C17 (as claimed): when the trimmed text is one fenced block labelled
\* json, the result is its interior and holds no fence; every other text is
\* returned as it is.
C17_CleanUnwrapsOneFencedBlock ==
    pc = "cleaned" =>
        LET blocks == {b \in Interiors(Strip(message_content)) : ~HasFence(b)} IN
        IF blocks # {}
        THEN cleaned_content[1] \in blocks
        ELSE cleaned_content[1] = message_content

\* The text of the parts of the request's systemInstruction, in order.
RECURSIVE InstructionText(_)
InstructionText(parts) ==
    IF parts = <<>> THEN <<>>
    ELSE InstructionText(SubSeq(parts, 1, Len(parts) - 1))
         \o (IF "text" \in DOMAIN parts[Len(parts)] THEN parts[Len(parts)].text
             ELSE <<>>)

\* C16: in generate_content and in stream_generate_content, the messages of
\* the backend request are the converted turns, preceded by one system
\* message holding the trimmed text of the systemInstruction exactly when
\* that text is not blank; no other message has the role system.
C16_SystemMessageIffInstruction ==
    completion_params # None =>
        LET msgs    == completion_params[1].messages
            turns   == ConvertContentsToMessages(request_data[1].contents)
            text    == IF request_data[1].systemInstruction = None THEN <<>>
                       ELSE InstructionText(request_data[1].systemInstruction[1].parts)
            systems == {i \in 1..Len(msgs) : msgs[i].role = "system"}
        IN  IF \E c \in Range(text) : ~IsWs(c)
            THEN /\ systems = {1}
                 /\ msgs[1] = [role |-> "system", content |-> Strip(text)]
                 /\ Tail(msgs) = turns
            ELSE /\ systems = {}
                 /\ msgs = turns

\* The streaming handler has built a request with a system message in front
\* of the messages of two turns.
C16_Witness ==
    /\ pc = "start"
    /\ completion_params # None
    /\ "stream" \in DOMAIN completion_params[1]
    /\ Len(completion_params[1].messages) = 3
    /\ completion_params[1].messages[1].role = "system"
    /\ completion_params[1].messages[3].role = "tool"

\* The function object of a tool-call delta, its fields empty when absent.
FunctionOf(tool_call) ==
    IF tool_call.function = None THEN [name |-> "", arguments |-> <<>>]
    ELSE tool_call.function[1]

\* C18: over an iteration of the loop, for every entry the mapping holds
\* after it whose slot received one delta: the identifier and the name are
\* those the entry had, if not empty, and else the delta's; the buffer is
\* the buffer the entry had followed by the delta's argument text.  An entry
\* whose slot received no delta is as it was.
C18_IdentifierAndNameSetOnceArgumentsAppended ==
    [][(pc = "iterate" /\ pc' = "iterate" /\ Len(all_chunks') = Len(all_chunks) + 1
        /\ HasDelta(all_chunks'[Len(all_chunks')]))
       => \A n \in 1..Len(accumulated_tool_calls') :
             LET after  == accumulated_tool_calls'[n]
                 before == IF HasKey(accumulated_tool_calls, after.key)
                           THEN DictGet(accumulated_tool_calls, after.key)
                           ELSE NewEntry(after.key)
                 deltas == SelectSeq(DeltaOf(all_chunks'[Len(all_chunks')]).tool_calls,
                                     LAMBDA tc : ToolCallKey(tc) = after.key)
             IN  /\ deltas = <<>> => after = before
                 /\ Len(deltas) = 1 =>
                       /\ after.id = IF before.id # "" THEN before.id
                                     ELSE deltas[1].id
                       /\ after.name = IF before.name # "" THEN before.name
                                       ELSE FunctionOf(deltas[1]).name
                       /\ after.arguments =
                             before.arguments \o FunctionOf(deltas[1]).arguments]_vars

\* The entry of slot 0 got identifier call_a and name f, then a delta with
\* identifier call_b and name g, then argument text: it still has call_a
\* and f, and the text.
C18_Witness ==
    /\ pc = "iterate"
    /\ Len(all_chunks) = 3
    /\ IsToolOnly(all_chunks[2])
    /\ OnlyCall(all_chunks[2]).id = "call_b"
    /\ OnlyCall(all_chunks[2]).function[1].name = "g"
    /\ ToolCallKey(OnlyCall(all_chunks[2])) = "tool_0"
    /\ accumulated_tool_calls =
          <<[key |-> "tool_0", id |-> "call_a", name |-> "f",
             arguments |-> <<"{", "k">>]>>

\* C19: over an iteration of the loop, a fragment without choices and a
\* fragment that carries text and no tool call leave the mapping as it was;
\* a fragment without choices, and a fragment without a finish reason that
\* gives no part (no text, no call completed), yields no frame.
C19_NothingProducedNothingChanged ==
    [][(pc = "iterate" /\ pc' = "iterate" /\ Len(all_chunks') = Len(all_chunks) + 1)
       => LET chunk    == all_chunks'[Len(all_chunks')]
              noChoice == chunk.choices = <<>>
              textOnly == /\ HasDelta(chunk)
                          /\ DeltaOf(chunk).content # ""
                          /\ DeltaOf(chunk).tool_calls = <<>>
              noParts  == /\ HasDelta(chunk)
                          /\ DeltaOf(chunk).content = ""
                          /\ completed_keys' = completed_keys
              noFinish == /\ chunk.choices # <<>>
                          /\ chunk.choices[1].finish_reason = None
          IN  /\ (noChoice \/ textOnly) =>
                    accumulated_tool_calls' = accumulated_tool_calls
              /\ (noChoice \/ (noParts /\ noFinish)) =>
                    (gemini_chunk' = None /\ yielded' = yielded)]_vars

\* With an entry in the mapping, a text fragment and then a fragment without
\* choices were consumed: the entry is as it was and only the text was
\* yielded.
C19_Witness ==
    /\ pc = "iterate"
    /\ Len(all_chunks) = 3
    /\ all_chunks[2] = Fragment("t", <<>>, None)
    /\ all_chunks[3].choices = <<>>
    /\ Len(accumulated_tool_calls) = 1
    /\ accumulated_tool_calls[1].name = "f"
    /\ Len(yielded) = 1
    /\ gemini_chunk = None

\* C20: in an exchange of either kind the client's create is called at most
\* once; once it has returned, it has been called exactly once; and an
\* exception of the call or of a later step ends the handler, which surfaces
\* it (an error frame, or the HTTPException) and calls the client no more.
C20_CreateCalledAtMostOnce ==
    /\ create_calls <= 1
    /\ pc \in {"iterate", "gen_response"} => create_calls = 1
    /\ raised # None =>
          /\ pc \in {"done", "gen_done"}
          /\ pc = "done" => yielded[Len(yielded)] = ErrorFrame(raised[1])
          /\ pc = "gen_done" => http_exception # None

\* The client's create raised in generate_content: one call, no response.
C20_Witness ==
    /\ pc = "gen_done"
    /\ raised # None
    /\ response = None
    /\ create_calls = 1

\* The functionCall parts the entries of one fragment give, entry by entry:
\* those of the entries before the last, then the part of the last entry.
RECURSIVE PartsInEntryOrder(_, _)
PartsInEntryOrder(acc, tool_calls) ==
    IF tool_calls = <<>> THEN [acc |-> acc, parts |-> <<>>]
    ELSE LET Then(before, r) ==
                 [acc |-> r.acc, parts |-> before.parts \o r.parts]
             Last(before) ==
                 Then(before,
                      AccumulateToolCall(before.acc, tool_calls[Len(tool_calls)]))
         IN  Last(PartsInEntryOrder(acc, SubSeq(tool_calls, 1, Len(tool_calls) - 1)))

\* C21: every iteration of the loop consumes one fragment, which it puts
\* after the fragments consumed before, and yields at most one frame, which
\* it puts after the frames yielded before; the frame of a fragment holds
\* the fragment's text, if any, as its first part and then the functionCall
\* parts in the order of the fragment's tool-call entries; the residual
\* flush consumes no fragment and puts its frames, one functionCall each,
\* after the frames yielded before.
C21_FramesFollowFragmentOrder ==
    [][/\ (pc = "iterate" /\ pc' = "iterate" /\ all_chunks' # all_chunks) =>
            /\ Len(all_chunks') = Len(all_chunks) + 1
            /\ SubSeq(all_chunks', 1, Len(all_chunks)) = all_chunks
            /\ Len(yielded') \in {Len(yielded), Len(yielded) + 1}
            /\ SubSeq(yielded', 1, Len(yielded)) = yielded
            /\ Len(yielded') = Len(yielded) + 1 =>
                  LET chunk == all_chunks'[Len(all_chunks')]
                      frame == yielded'[Len(yielded')]
                      Expected(delta) ==
                          (IF delta.content # "" THEN <<[text |-> delta.content]>>
                           ELSE <<>>)
                          \o PartsInEntryOrder(accumulated_tool_calls,
                                               delta.tool_calls).parts
                  IN  /\ ~IsErrorFrame(frame)
                      /\ HasDelta(chunk)
                      /\ FrameParts(frame) = Expected(DeltaOf(chunk))
                      /\ \A i \in 2..Len(FrameParts(frame)) :
                            IsFunctionCall(FrameParts(frame)[i])
       /\ (pc = "iterate" /\ pc' = "done" /\ raised' = None) =>
            /\ all_chunks' = all_chunks
            /\ Len(yielded') >= Len(yielded)
            /\ SubSeq(yielded', 1, Len(yielded)) = yielded
            /\ \A i \in (Len(yielded) + 1)..Len(yielded') :
                  /\ ~IsErrorFrame(yielded'[i])
                  /\ Len(FrameParts(yielded'[i])) = 1
                  /\ IsFunctionCall(FrameParts(yielded'[i])[1])]_vars

\* A text fragment, a fragment without choices and then the fragment with
\* text and two tool-call entries were consumed: two frames, the second
\* holding the text, then the call of the first entry, then the call of the
\* second.
C21_Witness ==
    /\ pc = "iterate"
    /\ Len(all_chunks) = 3
    /\ all_chunks[1] = Fragment("t", <<>>, None)
    /\ all_chunks[2].choices = <<>>
    /\ HasDelta(all_chunks[3])
    /\ Len(DeltaOf(all_chunks[3]).tool_calls) = 2
    /\ Len(yielded) = 2
    /\ FrameParts(yielded[1]) = <<[text |-> "t"]>>
    /\ FrameParts(yielded[2]) =
          <<[text |-> "t"],
            FunctionCallPart("f", JsonLoads(<<"{", "}">>).value),
            FunctionCallPart("g", JsonLoads(<<"{", "}">>).value)>>
    /\ completed_keys = <<"tool_0", "tool_1">>

\* C22: after every call of the converter no entry of the mapping has a
\* function name and a non-empty buffer that parses as JSON, and the
\* residual flush at the end of the stream yields no frame and completes no
\* call.
C22_NoCompletableEntryIsLeft ==
    [][/\ Flushable(accumulated_tool_calls') = <<>>
       /\ (pc = "iterate" /\ pc' = "done" /\ raised' = None) =>
             /\ yielded' = yielded
             /\ completed_keys' = completed_keys]_vars

\* The argument text of slot 0 came first and the name after it: the call
\* was emitted by the fragment with the name and its entry removed.  Then
\* argument text alone made a new entry, which the flush at the end of the
\* stream found and did not emit.
C22_Witness ==
    /\ pc = "done"
    /\ raised = None
    /\ Len(all_chunks) = 3
    /\ IsToolOnly(all_chunks[1])
    /\ FunctionOf(OnlyCall(all_chunks[1])) = [name |-> "", arguments |-> <<"{", "}">>]
    /\ IsToolOnly(all_chunks[2])
    /\ FunctionOf(OnlyCall(all_chunks[2])) = [name |-> "f", arguments |-> <<>>]
    /\ ToolCallKey(OnlyCall(all_chunks[2])) = "tool_0"
    /\ completed_keys = <<"tool_0">>
    /\ Len(yielded) = 1
    /\ accumulated_tool_calls =
          <<[key |-> "tool_0", id |-> "", name |-> "", arguments |-> <<"{", "}">>]>>

\* The slot keys of the fragments of the model.
SlotKeys == {ToolCallKey([index |-> i]) : i \in {None, Some(0), Some(1)}}

\* The tool-call entries delivered for one slot, in arrival order.
RECURSIVE DeltasOfSlot(_, _)
DeltasOfSlot(chunks, key) ==
    IF chunks = <<>> THEN <<>>
    ELSE (IF HasDelta(Head(chunks))
          THEN SelectSeq(DeltaOf(Head(chunks)).tool_calls,
                         LAMBDA tc : ToolCallKey(tc) = key)
          ELSE <<>>)
         \o DeltasOfSlot(Tail(chunks), key)

\* The calls the claim gives one slot: name and text are those received
\* since the entry was created; an entry that has a name and a text that
\* parses gives a call with the parse of the text, and the next entry of the
\* slot starts without name and text.
RECURSIVE CallsOfSlot(_, _, _)
CallsOfSlot(deltas, name, text) ==
    IF deltas = <<>> THEN <<>>
    ELSE LET Received(n, t) ==
                 IF n # "" /\ t # <<>> /\ JsonLoads(t).ok
                 THEN <<[name |-> n, args |-> JsonLoads(t).value]>>
                      \o CallsOfSlot(Tail(deltas), "", <<>>)
                 ELSE CallsOfSlot(Tail(deltas), n, t)
         IN  Received(IF name # "" THEN name ELSE FunctionOf(Head(deltas)).name,
                      text \o FunctionOf(Head(deltas)).arguments)

\* The functionCall objects of the frames, in the order they were yielded.
RECURSIVE EmittedCalls(_)
EmittedCalls(frames) ==
    IF frames = <<>> THEN <<>>
    ELSE LET Calls(parts) ==
                 [i \in 1..Len(parts) |-> parts[i].functionCall]
         IN  (IF IsErrorFrame(Head(frames)) THEN <<>>
              ELSE Calls(SelectSeq(FrameParts(Head(frames)), IsFunctionCall)))
             \o EmittedCalls(Tail(frames))

\* The calls emitted for one slot: those at the places of the slot's key in
\* the keys completed.
EmittedCallsOfSlot(calls, keys, key) ==
    LET At(places) == [j \in 1..Len(places) |-> calls[places[j]]]
    IN  At(SelectSeq([i \in 1..Len(keys) |-> i], LAMBDA i : keys[i] = key))

\* C23: at every point of a streaming exchange the functionCalls emitted for
\* a slot are, in order, those of the entries of the slot that received a
\* name and argument text whose concatenation, in arrival order since the
\* entry was created, parses; the args of each are that parse.  Text
\* delivered after a completion belongs to the next entry, which gives a
\* call only once a name was delivered again.
C23_ArgsAreTheParseOfTheTextSinceCreation ==
    LET Check(calls) ==
            /\ Len(calls) = Len(completed_keys)
            /\ \A key \in SlotKeys :
                  EmittedCallsOfSlot(calls, completed_keys, key)
                     = CallsOfSlot(DeltasOfSlot(all_chunks, key), "", <<>>)
    IN  Check(EmittedCalls(yielded))

\* The call of slot 0 was emitted with the arguments of its first fragment;
\* two fragments of argument text for the slot came after it: they are in a
\* new entry without a name, whose buffer parses, and no other call was
\* emitted.
C23_Witness ==
    /\ pc = "iterate"
    /\ Len(all_chunks) = 3
    /\ completed_keys = <<"tool_0">>
    /\ EmittedCalls(yielded)
          = <<[name |-> "f", args |-> JsonLoads(<<"{", "}">>).value]>>
    /\ accumulated_tool_calls =
          <<[key |-> "tool_0", id |-> "", name |-> "",
             arguments |-> <<"{", "k", "1", "}">>]>>

=============================================================================
